---- MODULE Spec2Model ----
(***************************************************************************)
(* Model of the two audio components of Angular-Mentor:                    *)
(*   - the Live Session Controller (components/VoiceAssistant), whose      *)
(*     refs and callbacks are the variables and actions of SpecLive;       *)
(*   - the Clip Player of App.tsx (stopAudio / playAudio and the handlers  *)
(*     that call them), the variables and actions of SpecClip.             *)
(* Every handler runs to completion on the single JavaScript event queue;  *)
(* an action is one handler, or the part of an async function between two  *)
(* awaits that really suspend.                                             *)
(***************************************************************************)
EXTENDS Integers, Sequences, FiniteSets, TLC

\* ---------------------------------------------------------------- bounds
MaxAttempts == 2        \* startSession invocations in one run
MaxChunks == 2          \* inbound audio chunks in one run
MaxTime == 1            \* real-time ticks in one run
MaxLoad == 7            \* weight of one run: 2 per invocation, 1 per chunk, 1 per tick
Durations == {1, 2}     \* buffer.duration of an inbound chunk, in ticks

MaxClicks == 2          \* handleQuestionClick invocations in one run
MaxPlays == 2           \* playAudio invocations in one run
MaxAuths == 2           \* sign-in and sign-up submissions in one run
MaxWork == 12           \* steps that sign-ins and question clicks may start (workFor)
MaxCalls == 2           \* direct dbService calls in one run
MaxFetches == 2         \* answer-and-audio requests in one run
Ids == {"q1", "q2"}     \* question ids

NoId == "null"          \* a null question / id / response
NoSource == 0           \* audioSourceRef.current === null
NoSession == 0          \* sessionRef.current === null
NoContext == 0          \* audioContextRef.current === null

Uids == {"u1", "u2"}    \* user ids
NoUid == "none"         \* no uid
NoUser == [uid |-> NoUid, verified |-> FALSE]     \* auth.currentUser === null
ProviderTexts == {"a1", ""}                       \* response.text of generateContent
Sorry == "sorry"        \* "I'm sorry, I couldn't generate an answer at this moment."
NoAnswer == "none"      \* no answer
Rejected == "rejected"  \* the promise was rejected (with an Error that has a message)
NoAudio == [of |-> NoAnswer]                      \* the entry has no audioBase64

\* docSnap.exists() is false / null
NoEntry == [answer |-> NoAnswer, audio |-> NoAudio, writer |-> NoUid]

\* the audio that the TTS model returns for a text
speech(text) == [of |-> text]

\* getValidUser: the user the operation runs for, or null
getValidUser(cu) == cu

\* the check of the user left out: no operation is skipped
skippedNever(cu) == FALSE

\* `if (!getValidUser()) return ...`: the operation is skipped
skipped(cu) == getValidUser(cu) = NoUser

\* the record of a dbService call: whether it reached Firestore, and what it
\* returned (null and the empty list are the empty set)
Db(fn, cu, result) ==
    [fn |-> fn, user |-> cu, touched |-> ~skipped(cu), result |-> result]

NoDb == [fn |-> "none", user |-> NoUser, touched |-> FALSE, result |-> {}]

\* the call record of getAnswerFromAI: where it is suspended, the uid its
\* pending dbService call runs for, and the answer it is about to return
Ask(pc, uid, text) == [pc |-> pc, uid |-> uid, text |-> text]

AskDone == Ask("done", NoUid, NoAnswer)

\* history: what the last step did for getAnswerFromAI call c (0: nothing):
\* the answer it returned (NoAnswer: it is still suspended; Rejected: it
\* threw), the number of generateContent calls it has made, and the
\* Firestore fault the step met ("read": getDoc rejected, "write": setDoc
\* rejected, "signedOut": saveAnswerToCache was skipped)
AskStep(c, result, n, fault) == [c |-> c, result |-> result, calls |-> n, fault |-> fault]

NoAskStep == AskStep(0, NoAnswer, 0, "none")

VARIABLES
    \* ---- VoiceAssistant
    isActive,           \* useState(false)
    sessionRef,         \* useRef<any>(null): index of the session held, or NoSession
    audioContextRef,    \* useRef<AudioContext|null>(null): index of the output context
    nextStartTimeRef,   \* useRef(0)
    sourcesRef,         \* useRef(new Set<AudioBufferSourceNode>()): indices into liveSources
    attempts,           \* one record per startSession invocation (its closure): pc, the
                        \* state of its connection, clock (the currentTime of its output
                        \* AudioContext), dirty (history, see markDirty)
    liveSources,        \* every AudioBufferSourceNode created by onmessage, in arrival order
    timeline,           \* history: "interrupted" when an interruption was the last change
                        \* of nextStartTimeRef, "resumed" when the last chunk was
                        \* scheduled directly after an interruption, else "normal"
    lastOp              \* history: the last handler, when it was stopSession (arg: 2 when
                        \* it directly follows another stopSession; threw: close() threw),
                        \* onerror of the held session while active, or onaudioprocess
                        \* (arg: the session the frame was sent to, or NoSession)

liveVars == <<isActive, sessionRef, audioContextRef, nextStartTimeRef, sourcesRef,
              attempts, liveSources, timeline, lastOp>>

VARIABLES
    \* ---- App (Clip Player and the question modal)
    activeAudioQuestionIdRef,   \* useRef<string|null>(null)
    audioSourceRef,             \* useRef<AudioBufferSourceNode|null>(null): index into clips
    isPlaying,                  \* useState(false)
    isAudioLoading,             \* useState(false)
    selectedQuestion,           \* useState<Question|null>(null)
    aiResponse,                 \* useState<AIResponse|null>(null): the question it answers
    isLoading,                  \* useState(false)
    error,                      \* useState<string|null>(null): an error message is set
    clicks,                     \* one record per handleQuestionClick invocation
    plays,                      \* one record per playAudio invocation
    clips,                      \* every AudioBufferSourceNode started by playAudio
    lastClip                    \* history: "stop" when the last handler was a bare stopAudio(),
                                \* "stopAgain" when that directly followed another one

clipVars == <<activeAudioQuestionIdRef, audioSourceRef, isPlaying, isAudioLoading,
              selectedQuestion, aiResponse, isLoading, error, clicks, plays, clips,
              lastClip>>

VARIABLES
    \* ---- services/firebase, services/dbService, services/geminiService
    currentUser,        \* auth.currentUser: [uid, verified], or NoUser
    user,               \* App: useState<User|null>(null), the uid or NoUid
    logoutDue,          \* a logout() has been called (or is the next statement of
                        \* a suspended handler) and signOut has not completed
    store,              \* collection ai_answers: question id -> entry, or NoEntry
                        \* (writer: history, the uid signed in when it was written;
                        \* audio: the audioBase64, as the text it was synthesized from)
    questions,          \* collection user_questions: documents [id, userId]
    asks,               \* the getAnswerFromAI call of each handleQuestionClick
    auths,              \* number of sign-in / sign-up submissions so far
    refreshed,          \* refreshData has been called
    calls,              \* number of direct dbService calls so far
    fetches,            \* the requests that call getAnswerFromAI and then, with
                        \* the answer, getAudioFromText: where each is suspended
    lastDb,             \* history: the dbService call made by the last step
    lastAsk             \* history: what the last step did for a getAnswerFromAI call

cacheVars == <<currentUser, user, logoutDue, store, questions, asks, auths,
              refreshed, calls, fetches, lastDb, lastAsk>>

vars == <<liveVars, clipVars, cacheVars>>

Max(a, b) == IF a >= b THEN a ELSE b

Op(kind, arg, threw) == [kind |-> kind, arg |-> arg, threw |-> threw]

\* ------------------------------------------------------ Live Session
\* outputCtx.currentTime of the context created by attempt s: every
\* startSession constructs its own AudioContext, whose clock starts at 0.
currentTime(s) == attempts[s].clock

\* the attempt did not get a session: getUserMedia or connect rejected
failed(a) == a.pc \in {"failedMic", "failedConnect"}

RECURSIVE maxClock(_, _)
\* the largest clock among the first n attempts (the time since the oldest
\* context was created)
maxClock(atts, n) ==
    IF n = 0 THEN 0 ELSE Max(atts[n].clock, maxClock(atts, n - 1))

elapsed == maxClock(attempts, Len(attempts))

\* the run has room for n more units of weight: an invocation of
\* startSession weighs 2 (its two awaits settle later), a chunk or a tick 1
roomFor(n) == 2 * Len(attempts) + Len(liveSources) + elapsed + n <= MaxLoad

\* real time, counted from the present instant, at which a scheduled source
\* starts and ends playing: each source plays on the clock of its own context
realStart(i) == liveSources[i].start - currentTime(liveSources[i].sess)
realEnd(i) == realStart(i) + liveSources[i].dur

\* the source has played to its end (its 'ended' event is due)
hasEnded(i) == ~liveSources[i].stopped /\ realEnd(i) <= 0

\* source.stop() on every member of a set of sources
stopSources(srcs, set) ==
    [i \in DOMAIN srcs |->
        IF i \in set /\ ~srcs[i].stopped
              /\ attempts[srcs[i].sess].clock < srcs[i].start + srcs[i].dur
        THEN [srcs[i] EXCEPT !.stopped = TRUE]
        ELSE srcs[i]]

\* history: an interruption or a stop happened since the session was started
markDirty(atts) ==
    [a \in DOMAIN atts |-> IF failed(atts[a]) THEN atts[a] ELSE [atts[a] EXCEPT !.dirty = TRUE]]

\* session.close(): an open connection starts closing; a throwing close()
\* leaves the connection as it was
closeSession(atts, s, closeThrows) ==
    IF s # NoSession /\ ~closeThrows /\ atts[s].conn = "open"
    THEN [atts EXCEPT ![s].conn = "closing"]
    ELSE atts

\* stopSession with the try/catch around close() removed
stopSessionNoCatch(closeThrows) ==
    IF sessionRef # NoSession /\ closeThrows
    THEN [session |-> sessionRef, sources |-> sourcesRef, next |-> nextStartTimeRef,
          active |-> isActive, stopAll |-> FALSE, raised |-> TRUE]
    ELSE [session |-> NoSession, sources |-> {}, next |-> 0,
          active |-> FALSE, stopAll |-> TRUE, raised |-> FALSE]

\* the refs and the flag as stopSession leaves them
stopSessionResult(closeThrows) ==
    [session |-> NoSession, sources |-> {}, next |-> 0,
     active |-> FALSE, stopAll |-> TRUE, raised |-> FALSE]

stopSession(closeThrows) ==
    LET r == stopSessionResult(closeThrows) IN
    /\ sessionRef' = r.session
    /\ attempts' = markDirty(closeSession(attempts, sessionRef, closeThrows))
    /\ liveSources' = IF r.stopAll THEN stopSources(liveSources, sourcesRef) ELSE liveSources
    /\ sourcesRef' = r.sources
    /\ nextStartTimeRef' = r.next
    /\ isActive' = r.active
    /\ timeline' = "normal"
    /\ lastOp' = Op(IF r.raised THEN "stopRaised" ELSE "stop",
                    IF lastOp.kind = "stop" THEN 2 ELSE 1,
                    (closeThrows /\ sessionRef # NoSession)
                       \/ (lastOp.kind = "stop" /\ lastOp.threw))
    /\ UNCHANGED audioContextRef

\* startSession up to `await navigator.mediaDevices.getUserMedia`
startSession ==
    /\ Len(attempts) < MaxAttempts /\ roomFor(2)
    /\ attempts' = Append(attempts,
          [pc |-> "mic", conn |-> "none", clock |-> 0, dirty |-> FALSE])
    /\ audioContextRef' = Len(attempts) + 1
    /\ lastOp' = Op("other", 0, FALSE)
    /\ UNCHANGED <<isActive, sessionRef, nextStartTimeRef, sourcesRef, liveSources,
                   timeline>>

\* the floating toggle button: onClick={isActive ? stopSession : startSession}
ToggleStop ==
    /\ \E closeThrows \in BOOLEAN : isActive /\ stopSession(closeThrows)
    /\ UNCHANGED <<clipVars, cacheVars>>

ToggleStart == ~isActive /\ startSession /\ UNCHANGED <<clipVars, cacheVars>>

\* getUserMedia settles: on success ai.live.connect is called, on failure the
\* catch block logs
getUserMediaSettles(s, ok) ==
    /\ s \in DOMAIN attempts /\ attempts[s].pc = "mic"
    /\ attempts' = [attempts EXCEPT ![s] =
          IF ok THEN [@ EXCEPT !.pc = "connecting", !.conn = "connecting"]
                ELSE [@ EXCEPT !.pc = "failedMic", !.clock = 0, !.dirty = FALSE]]
    /\ lastOp' = Op("other", 0, FALSE)
    /\ UNCHANGED <<isActive, sessionRef, audioContextRef, nextStartTimeRef, sourcesRef,
                   liveSources, timeline>>

\* what `sessionRef.current = await sessionPromise; setIsActive(true)` stores
connected(s) == [session |-> s, active |-> TRUE]

\* ai.live.connect settles: the connection opens (onopen) and the awaiting
\* startSession stores the handle, or the promise rejects into the catch block
connectSettles(s, ok) ==
    /\ s \in DOMAIN attempts /\ attempts[s].pc = "connecting"
    /\ attempts' = [attempts EXCEPT ![s] =
          IF ok THEN [@ EXCEPT !.pc = "done", !.conn = "open"]
                ELSE [@ EXCEPT !.pc = "failedConnect", !.conn = "closed",
                               !.clock = 0, !.dirty = FALSE]]
    /\ sessionRef' = IF ok THEN connected(s).session ELSE sessionRef
    /\ isActive' = IF ok THEN connected(s).active ELSE isActive
    /\ lastOp' = Op("other", 0, FALSE)
    /\ UNCHANGED <<audioContextRef, nextStartTimeRef, sourcesRef, liveSources,
                   timeline>>

\* Math.max(nextStartTimeRef.current, outputCtx.currentTime)
scheduleStart(next, clock) == Max(next, clock)

\* an interruption that leaves nextStartTimeRef as it was
interruptedKeepsNext(next) == next

\* nextStartTimeRef.current = 0 of the interrupted branch
interruptedNext(next) == 0

\* onmessage of session s: d is the duration of the audio part (0: none),
\* intr the serverContent.interrupted flag.  decodeAudioData has no await
\* inside, so the handler resumes in the microtask checkpoint of the task
\* that delivered the message: no event handler runs in between, and the
\* only promise continuation of the component (the end of startSession)
\* writes sessionRef and isActive, which the handler does not read.
onmessage(s, d, intr) ==
    /\ s \in DOMAIN attempts /\ attempts[s].conn = "open"
    /\ d # 0 \/ intr
    /\ d # 0 => (Len(liveSources) < MaxChunks /\ roomFor(1))
    /\ LET t == currentTime(s)
           startAt == scheduleStart(nextStartTimeRef, t)
           node == [sess |-> s, start |-> startAt, dur |-> d, stopped |-> FALSE]
           srcs1 == IF d # 0 THEN Append(liveSources, node) ELSE liveSources
           set1 == IF d # 0 THEN sourcesRef \cup {Len(srcs1)} ELSE sourcesRef
           next1 == IF d # 0 THEN startAt + d ELSE nextStartTimeRef
       IN  /\ liveSources' = IF intr THEN stopSources(srcs1, set1) ELSE srcs1
           /\ sourcesRef' = IF intr THEN {} ELSE set1
           /\ nextStartTimeRef' = IF intr THEN interruptedNext(next1) ELSE next1
    /\ attempts' = IF intr THEN markDirty(attempts) ELSE attempts
    /\ timeline' = IF intr THEN "interrupted"
                   ELSE IF timeline = "interrupted" THEN "resumed" ELSE "normal"
    /\ lastOp' = Op("other", 0, FALSE)
    /\ UNCHANGED <<isActive, sessionRef, audioContextRef>>

\* onclose: () => setIsActive(false), fired when the remote side closes the
\* connection or when a close() requested by stopSession completes
onclose(s) ==
    /\ s \in DOMAIN attempts /\ attempts[s].conn \in {"open", "closing"}
    /\ attempts' = [attempts EXCEPT ![s].conn = "closed"]
    /\ isActive' = FALSE
    /\ lastOp' = Op("other", 0, FALSE)
    /\ UNCHANGED <<sessionRef, audioContextRef, nextStartTimeRef, sourcesRef, liveSources,
                   timeline>>

\* onerror: (e) => console.error(...)
onerror(s) ==
    /\ s \in DOMAIN attempts /\ attempts[s].conn = "open"
    /\ lastOp' = Op(IF isActive /\ s = sessionRef THEN "remoteError" ELSE "other", 0, FALSE)
    /\ UNCHANGED <<isActive, sessionRef, audioContextRef, nextStartTimeRef, sourcesRef,
                   attempts, liveSources, timeline>>

\* sourceNode 'ended' listener: sourcesRef.current.delete(sourceNode)
onended(i) ==
    /\ i \in sourcesRef /\ hasEnded(i)
    /\ sourcesRef' = sourcesRef \ {i}
    /\ lastOp' = Op("other", 0, FALSE)
    /\ UNCHANGED <<isActive, sessionRef, audioContextRef, nextStartTimeRef, attempts,
                   liveSources, timeline>>

\* scriptProcessor.onaudioprocess of attempt s, whose onopen has connected
\* the processor to the microphone stream (neither is ever disconnected or
\* stopped): `if (!sessionRef.current) return;`, else the frame is encoded and
\* sessionPromise.then(session => session.sendRealtimeInput(...)) sends it to
\* the session of attempt s (the promise is resolved, so the send runs in
\* the microtask checkpoint of the same task)
onaudioprocess(s) ==
    /\ s \in DOMAIN attempts /\ attempts[s].pc = "done"
    /\ lastOp' = Op("frame", IF sessionRef = NoSession THEN NoSession ELSE s, FALSE)
    /\ UNCHANGED <<isActive, sessionRef, audioContextRef, nextStartTimeRef, sourcesRef,
                   attempts, liveSources, timeline>>

\* real time passes; every AudioContext clock advances with it (the clock
\* of a context whose attempt failed is never read and is not tracked)
Tick ==
    /\ elapsed < MaxTime /\ roomFor(1)
    /\ \E s \in DOMAIN attempts : ~failed(attempts[s])
    /\ attempts' = [s \in DOMAIN attempts |->
          IF failed(attempts[s]) THEN attempts[s]
          ELSE [attempts[s] EXCEPT !.clock = @ + 1]]
    /\ lastOp' = Op("other", 0, FALSE)
    /\ UNCHANGED <<isActive, sessionRef, audioContextRef, nextStartTimeRef, sourcesRef,
                   liveSources, timeline>>
    /\ UNCHANGED <<clipVars, cacheVars>>

\* stopSession invoked while the toggle shows "start" (the operation itself
\* is callable in every state)
StopWhileInactive ==
    /\ \E closeThrows \in BOOLEAN : ~isActive /\ stopSession(closeThrows)
    /\ UNCHANGED <<clipVars, cacheVars>>

Init ==
    /\ isActive = FALSE
    /\ sessionRef = NoSession
    /\ audioContextRef = NoContext
    /\ nextStartTimeRef = 0
    /\ sourcesRef = {}
    /\ attempts = <<>>
    /\ liveSources = <<>>
    /\ timeline = "normal"
    /\ lastOp = Op("other", 0, FALSE)
    /\ activeAudioQuestionIdRef = NoId
    /\ audioSourceRef = NoSource
    /\ isPlaying = FALSE
    /\ isAudioLoading = FALSE
    /\ selectedQuestion = NoId
    /\ aiResponse = NoId
    /\ isLoading = FALSE
    /\ error = FALSE
    /\ clicks = <<>>
    /\ plays = <<>>
    /\ clips = <<>>
    /\ lastClip = "other"
    /\ currentUser = NoUser
    /\ user = NoUid
    /\ logoutDue = FALSE
    /\ store = [q \in Ids |-> NoEntry]
    /\ questions = {}
    /\ asks = <<>>
    /\ auths = 0
    /\ refreshed = FALSE
    /\ calls = 0
    /\ fetches = <<>>
    /\ lastDb = NoDb
    /\ lastAsk = NoAskStep

GetUserMediaSettles ==
    /\ \E s \in 1..MaxAttempts, ok \in BOOLEAN : getUserMediaSettles(s, ok)
    /\ UNCHANGED <<clipVars, cacheVars>>
ConnectSettles ==
    /\ \E s \in 1..MaxAttempts, ok \in BOOLEAN : connectSettles(s, ok)
    /\ UNCHANGED <<clipVars, cacheVars>>
OnMessage ==
    /\ \E s \in 1..MaxAttempts, d \in Durations \cup {0}, intr \in BOOLEAN :
          onmessage(s, d, intr)
    /\ UNCHANGED <<clipVars, cacheVars>>
OnClose == (\E s \in 1..MaxAttempts : onclose(s)) /\ UNCHANGED <<clipVars, cacheVars>>
OnError == (\E s \in 1..MaxAttempts : onerror(s)) /\ UNCHANGED <<clipVars, cacheVars>>
OnEnded == (\E i \in 1..MaxChunks : onended(i)) /\ UNCHANGED <<clipVars, cacheVars>>

NextLive ==
    \/ OnMessage
    \/ OnClose
    \/ OnError
    \/ OnEnded
    \/ Tick
    \/ GetUserMediaSettles
    \/ ConnectSettles
    \/ ToggleStart
    \/ ToggleStop

SpecLive == Init /\ [][NextLive]_vars

OnAudioProcess ==
    (\E s \in 1..MaxAttempts : onaudioprocess(s)) /\ UNCHANGED <<clipVars, cacheVars>>

NextMic == NextLive \/ OnAudioProcess

SpecMic == Init /\ [][NextMic]_vars

NextLiveApi == NextLive \/ StopWhileInactive

SpecLiveApi == Init /\ [][NextLiveApi]_vars

\* ------------------------------------------------------- Clip Player
\* stopAudio with the try/catch around source.stop() removed, on an engine
\* (webkitAudioContext) whose stop() throws on a source that has finished:
\* the statements after the throw are not executed
stopAudioNoCatch(st) ==
    IF st.source # NoSource /\ st.clips[st.source].state # "playing"
    THEN [st EXCEPT !.active = NoId]
    ELSE [st EXCEPT
            !.active = NoId,
            !.clips = IF st.source # NoSource
                      THEN [st.clips EXCEPT ![st.source].state = "stopped",
                                            ![st.source].endedDue = TRUE]
                      ELSE st.clips,
            !.source = NoSource,
            !.playing = FALSE]

\* the refs, the flag and the sources as stopAudio leaves them
stopAudio(st) ==
    [st EXCEPT
        !.active = NoId,
        !.clips = IF st.source # NoSource /\ st.clips[st.source].state = "playing"
                  THEN [st.clips EXCEPT ![st.source].state = "stopped",
                                        ![st.source].endedDue = TRUE]
                  ELSE st.clips,
        !.source = NoSource,
        !.playing = FALSE]

\* stopAudio() called by a handler (not as the first statement of
\* playAudio); history: the play calls that are pending then are marked
stopAudioCalled(st) ==
    LET s1 == stopAudio(st) IN
    [s1 EXCEPT !.plays = [p \in DOMAIN s1.plays |->
                            IF s1.plays[p].pc \in {"fetch", "decode"}
                            THEN [s1.plays[p] EXCEPT !.halted = TRUE]
                            ELSE s1.plays[p]]]

\* the Clip Player state as one record
player == [active |-> activeAudioQuestionIdRef, source |-> audioSourceRef,
           playing |-> isPlaying, loading |-> isAudioLoading, clips |-> clips,
           plays |-> plays]

setPlayer(st) ==
    /\ activeAudioQuestionIdRef' = st.active
    /\ audioSourceRef' = st.source
    /\ isPlaying' = st.playing
    /\ isAudioLoading' = st.loading
    /\ clips' = st.clips
    /\ plays' = st.plays

\* playAudio(questionId, text) up to `await getAudioFromText`
playAudio(st, questionId) ==
    LET s1 == stopAudio(st) IN
    [s1 EXCEPT !.active = questionId,
               !.loading = TRUE,
               !.plays = Append(st.plays,
                            [id |-> questionId, pc |-> "fetch", halted |-> FALSE])]

\* `activeAudioQuestionIdRef.current !== questionId` did not hold
stillActive(active, questionId) == active = questionId

\* the finally block of playAudio
playAudioFinally(st, questionId) ==
    IF stillActive(st.active, questionId) THEN [st EXCEPT !.loading = FALSE] ELSE st

\* a playAudio call is between `await decodeAudioData` and its continuation.
\* decodeAudioData has no await inside, so the continuation is a microtask of
\* the task that resumed the call: promise continuations may run before it,
\* event handlers (clicks, onended) may not.
decodePending == \E p \in DOMAIN plays : plays[p].pc = "decode"

\* getAudioFromText of call p settles: a rejection (or a throwing decode())
\* goes to the catch block; a result passes the first active-id check and
\* the call awaits decodeAudioData, or is dropped by the check
audioSettles(p, ok) ==
    /\ p \in DOMAIN plays /\ plays[p].pc = "fetch"
    /\ LET id == plays[p].id
           goOn == ok /\ stillActive(activeAudioQuestionIdRef, id)
           st == [player EXCEPT !.plays[p].pc =
                     IF goOn THEN "decode" ELSE IF ok THEN "done" ELSE "failed"]
       IN  setPlayer(IF goOn THEN st ELSE playAudioFinally(st, id))
    /\ lastClip' = "other"
    /\ UNCHANGED <<selectedQuestion, aiResponse, isLoading, error, clicks>>

\* decodeAudioData of call p settles: a rejection goes to the catch block; a
\* buffer passes the second active-id check and is started, or is dropped
decodeSettles(p, ok) ==
    /\ p \in DOMAIN plays /\ plays[p].pc = "decode"
    /\ LET id == plays[p].id
           goOn == ok /\ stillActive(activeAudioQuestionIdRef, id)
           st0 == [player EXCEPT !.plays[p].pc = IF ok THEN "done" ELSE "failed"]
           st1 == IF goOn
                  THEN [st0 EXCEPT
                          !.clips = Append(st0.clips,
                              [id |-> id, call |-> p, state |-> "playing",
                               endedDue |-> FALSE]),
                          !.source = Len(st0.clips) + 1,
                          !.playing = TRUE]
                  ELSE st0
       IN  setPlayer(playAudioFinally(st1, id))
    /\ lastClip' = "other"
    /\ UNCHANGED <<selectedQuestion, aiResponse, isLoading, error, clicks>>

\* source.onended of clip i: fired when the clip plays to its end, and after
\* a stop() of the clip
onendedClip(i) ==
    /\ ~decodePending
    /\ i \in DOMAIN clips
    /\ clips[i].state = "playing" \/ clips[i].endedDue
    /\ clips' = [clips EXCEPT ![i].state = IF @ = "playing" THEN "ended" ELSE @,
                              ![i].endedDue = FALSE]
    /\ isPlaying' = IF activeAudioQuestionIdRef = clips[i].id THEN FALSE ELSE isPlaying
    /\ lastClip' = "other"
    /\ UNCHANGED <<activeAudioQuestionIdRef, audioSourceRef, isAudioLoading,
                   selectedQuestion, aiResponse, isLoading, error, clicks, plays>>

\* handleQuestionClick(question) up to `await getAnswerFromAI`; the question
\* cards are covered by the modal while a question is selected
handleQuestionClick(q) ==
    /\ ~decodePending
    /\ selectedQuestion = NoId
    /\ Len(clicks) < MaxClicks
    /\ setPlayer(stopAudioCalled(player))
    /\ selectedQuestion' = q
    /\ aiResponse' = NoId
    /\ isLoading' = TRUE
    /\ error' = FALSE
    /\ clicks' = Append(clicks, [id |-> q, pc |-> "fetch"])
    /\ lastClip' = "other"

\* the catch block of handleQuestionClick left out: no error message is set
answerSettlesErrorLost(c, ok) ==
    /\ c \in DOMAIN clicks /\ clicks[c].pc = "fetch"
    /\ ok => Len(plays) < MaxPlays
    /\ clicks' = [clicks EXCEPT ![c].pc = "done"]
    /\ aiResponse' = IF ok THEN clicks[c].id ELSE aiResponse
    /\ isLoading' = FALSE
    /\ setPlayer(IF ok THEN playAudio(player, clicks[c].id) ELSE player)
    /\ lastClip' = "other"
    /\ UNCHANGED <<selectedQuestion, error>>

\* getAnswerFromAI of click c settles: the answer is stored and played, or
\* the error message is set; finally the loading flag is cleared
answerSettles(c, ok) ==
    /\ c \in DOMAIN clicks /\ clicks[c].pc = "fetch"
    /\ ok => Len(plays) < MaxPlays
    /\ clicks' = [clicks EXCEPT ![c].pc = "done"]
    /\ aiResponse' = IF ok THEN clicks[c].id ELSE aiResponse
    /\ error' = IF ok THEN error ELSE TRUE
    /\ isLoading' = FALSE
    /\ setPlayer(IF ok THEN playAudio(player, clicks[c].id) ELSE player)
    /\ lastClip' = "other"
    /\ UNCHANGED selectedQuestion

\* the play/pause button of the modal:
\* onClick={() => isPlaying ? stopAudio() : playAudio(selectedQuestion.id, aiResponse.answer)}
\* disabled={isAudioLoading}, rendered when aiResponse is set
playPauseClick ==
    /\ ~decodePending
    /\ selectedQuestion # NoId /\ aiResponse # NoId /\ ~isAudioLoading
    /\ ~isPlaying => Len(plays) < MaxPlays
    /\ setPlayer(IF isPlaying THEN stopAudioCalled(player) ELSE playAudio(player, selectedQuestion))
    /\ lastClip' = (IF isPlaying THEN "stop" ELSE "other")
    /\ UNCHANGED <<selectedQuestion, aiResponse, isLoading, error, clicks>>

\* handleCloseModal
handleCloseModal ==
    /\ ~decodePending
    /\ selectedQuestion # NoId
    /\ selectedQuestion' = NoId
    /\ setPlayer(stopAudioCalled(player))
    /\ lastClip' = "other"
    /\ UNCHANGED <<aiResponse, isLoading, error, clicks>>

HandleQuestionClick == (\E q \in Ids : handleQuestionClick(q)) /\ UNCHANGED <<liveVars, cacheVars>>
AnswerSettles ==
    (\E c \in 1..MaxClicks, ok \in BOOLEAN : answerSettles(c, ok)) /\ UNCHANGED <<liveVars, cacheVars>>
AudioSettles ==
    (\E p \in 1..MaxPlays, ok \in BOOLEAN : audioSettles(p, ok)) /\ UNCHANGED <<liveVars, cacheVars>>
DecodeSettles ==
    (\E p \in 1..MaxPlays, ok \in BOOLEAN : decodeSettles(p, ok)) /\ UNCHANGED <<liveVars, cacheVars>>
OnEndedClip == (\E i \in 1..MaxPlays : onendedClip(i)) /\ UNCHANGED <<liveVars, cacheVars>>
PlayPauseClick == playPauseClick /\ UNCHANGED <<liveVars, cacheVars>>
HandleCloseModal == handleCloseModal /\ UNCHANGED <<liveVars, cacheVars>>

NextClip ==
    \/ HandleQuestionClick
    \/ AnswerSettles
    \/ AudioSettles
    \/ DecodeSettles
    \/ OnEndedClip
    \/ PlayPauseClick
    \/ HandleCloseModal

SpecClip == Init /\ [][NextClip]_vars

\* stopAudio() called on its own, in any state between two handlers (as
\* handleLogout does before it awaits logout())
stopAudioCall ==
    /\ ~decodePending
    /\ setPlayer(stopAudioCalled(player))
    /\ lastClip' = (IF lastClip = "other" THEN "stop" ELSE "stopAgain")
    /\ UNCHANGED <<selectedQuestion, aiResponse, isLoading, error, clicks>>

StopAudioCall == stopAudioCall /\ UNCHANGED <<liveVars, cacheVars>>

NextClipApi == NextClip \/ StopAudioCall

SpecClipApi == Init /\ [][NextClipApi]_vars

\* ------------------------------------------------ dbService / auth
\* getCachedAnswer(questionId): ok is false when getDoc rejects
getCachedAnswer(cu, st, questionId, ok) ==
    IF skipped(cu) \/ ~ok \/ st[questionId] = NoEntry THEN {} ELSE {st[questionId]}

\* saveAnswerToCache(entry): the collection afterwards; ok is false when
\* setDoc rejects
saveAnswerToCache(cu, st, questionId, entry, ok) ==
    IF skipped(cu) \/ ~ok THEN st ELSE [st EXCEPT ![questionId] = entry]

\* getAllCachedIds()
getAllCachedIds(cu, st, ok) ==
    IF skipped(cu) \/ ~ok THEN {} ELSE {q \in Ids : st[q] # NoEntry}

\* getCustomQuestions(): where("userId", "==", user.uid)
getCustomQuestions(cu, qs, ok) ==
    IF skipped(cu) \/ ~ok THEN {} ELSE {d \in qs : d.userId = cu.uid}

\* saveCustomQuestion(q): setDoc(doc(db, QUESTIONS_COLLECTION, q.id), {...q, userId})
saveCustomQuestion(cu, qs, id, ok) ==
    IF skipped(cu) \/ ~ok THEN qs
    ELSE {d \in qs : d.id # id} \cup {[id |-> id, userId |-> cu.uid]}

\* deleteCustomQuestion(id)
deleteCustomQuestion(cu, qs, id, ok) ==
    IF skipped(cu) \/ ~ok THEN qs ELSE {d \in qs : d.id # id}

\* the work a run may hold, in steps: a sign-in counts 2 (the submission and
\* the onAuthStateChanged callback), a question click 4 (the click and the
\* three awaits of its getAnswerFromAI call: getDoc, generateContent, setDoc)
workFor(a, c) == 2 * (auths + a) + 4 * (Len(clicks) + c) <= MaxWork

\* what onAuthStateChanged hands to setUser: the user when verified, else null
shownUser(cu) == IF cu # NoUser /\ cu.verified THEN cu.uid ELSE NoUid

\* refreshData after `await getAllCachedIds()`: getCustomQuestions() is
\* called.  The number of refreshData calls that are suspended is not
\* tracked: the continuation, which only reads, may run at any time after
\* the first call of refreshData, and more than once.
refreshContinues(ok) ==
    /\ lastAsk' = NoAskStep
    /\ refreshed
    /\ lastDb' = Db("getCustomQuestions", currentUser,
                    getCustomQuestions(currentUser, questions, ok))
    /\ UNCHANGED <<currentUser, user, logoutDue, store, questions, asks, auths, refreshed, calls, fetches>>

\* LoginPage.handleAuth, sign-in branch, after signInWithEmailAndPassword
\* has resolved with user u: an unverified user is signed out again
\* (`await logout()`), a verified one is let in (onLoginSuccess = refreshData)
signIn(u, verified, ok) ==
    /\ lastAsk' = NoAskStep
    /\ user = NoUid /\ ~logoutDue /\ auths < MaxAuths /\ workFor(1, 0)
    /\ auths' = auths + 1
    /\ currentUser' = [uid |-> u, verified |-> verified]
    /\ logoutDue' = ~verified
    /\ IF verified
       THEN lastDb' = Db("getAllCachedIds", currentUser',
                         getAllCachedIds(currentUser', store, ok))
       ELSE lastDb' = NoDb
    /\ refreshed' = (refreshed \/ verified)
    /\ UNCHANGED <<user, store, questions, asks, calls, fetches>>

\* LoginPage.handleAuth, sign-up branch, after createUserWithEmailAndPassword
\* has resolved: the new user is signed in, unverified, until the logout()
\* that follows updateProfile and sendEmailVerification completes
signUp(u) ==
    /\ lastAsk' = NoAskStep
    /\ user = NoUid /\ ~logoutDue /\ auths < MaxAuths /\ workFor(1, 0)
    /\ auths' = auths + 1
    /\ currentUser' = [uid |-> u, verified |-> FALSE]
    /\ logoutDue' = TRUE
    /\ lastDb' = NoDb
    /\ UNCHANGED <<user, store, questions, asks, refreshed, calls, fetches>>

\* LoginPage.handleGoogleLogin after loginWithGoogle has resolved:
\* `if (result.user) { clearInputs(); onLoginSuccess(); }`
handleGoogleLogin(u, verified, ok) ==
    /\ lastAsk' = NoAskStep
    /\ user = NoUid /\ auths < MaxAuths /\ workFor(1, 0)
    /\ auths' = auths + 1
    /\ currentUser' = [uid |-> u, verified |-> verified]
    /\ lastDb' = Db("getAllCachedIds", currentUser',
                    getAllCachedIds(currentUser', store, ok))
    /\ refreshed' = TRUE
    /\ UNCHANGED <<user, logoutDue, store, questions, asks, calls, fetches>>

\* signOut(auth) completes
logoutSettles ==
    /\ lastAsk' = NoAskStep
    /\ logoutDue
    /\ logoutDue' = FALSE
    /\ currentUser' = NoUser
    /\ lastDb' = NoDb
    /\ UNCHANGED <<user, store, questions, asks, auths, refreshed, calls, fetches>>

\* the onAuthStateChanged callback of App, and the effect on [user] that
\* calls refreshData when a user is set
onAuthStateChanged(ok) ==
    /\ lastAsk' = NoAskStep
    /\ user # shownUser(currentUser)
    /\ user' = shownUser(currentUser)
    /\ IF user' # NoUid
       THEN lastDb' = Db("getAllCachedIds", currentUser,
                         getAllCachedIds(currentUser, store, ok))
       ELSE lastDb' = NoDb
    /\ refreshed' = (refreshed \/ user' # NoUid)
    /\ UNCHANGED <<currentUser, logoutDue, store, questions, asks, auths, calls, fetches>>

\* handleLogout up to `await logout()`; the header is covered by the modal
\* while a question is selected
handleLogout ==
    /\ lastAsk' = NoAskStep
    /\ user # NoUid /\ selectedQuestion = NoId /\ ~logoutDue
    /\ stopAudioCall
    /\ logoutDue' = TRUE
    /\ lastDb' = NoDb
    /\ UNCHANGED <<currentUser, user, store, questions, asks, auths, refreshed, calls, fetches>>

\* ---------------------------------------------- getAnswerFromAI
\* the user getValidUser returned to a call that now awaits Firestore
\* (dbService reads nothing of it but the uid)
caller(uid) == [uid |-> uid, verified |-> TRUE]

\* catch (error) { ...; throw new Error("Failed to fetch answer from AI mentor.") }
askRejected(c) == AskStep(c, Rejected, 1, "none")

\* an entry is never taken from the cache
cacheHitNever(cached) == FALSE

\* `if (cached)`
cacheHit(cached) == cached # {}

\* response.text || "I'm sorry, I couldn't generate an answer at this moment."
answerText(text) == IF text = "" THEN Sorry ELSE text

\* a question card is clicked: handleQuestionClick up to its await, which
\* calls getAnswerFromAI, which calls getCachedAnswer: skipped with no user
\* (then generateContent is called right away), else getDoc is awaited
askClick(q) ==
    /\ user # NoUid /\ workFor(0, 1)
    /\ handleQuestionClick(q)
    /\ asks' = Append(asks,
          IF skipped(currentUser) THEN Ask("provider", NoUid, NoAnswer)
          ELSE Ask("read", currentUser.uid, NoAnswer))
    /\ lastAsk' = AskStep(Len(asks) + 1, NoAnswer, IF skipped(currentUser) THEN 1 ELSE 0,
                          "none")
    /\ lastDb' = Db("getCachedAnswer", currentUser, {})
    /\ UNCHANGED <<currentUser, user, logoutDue, store, questions, auths, refreshed, calls, fetches>>

\* getDoc of call c settles: a cached entry is returned to handleQuestionClick,
\* else (no entry, or getDoc rejected) generateContent is called
askReadSettles(c, ok) ==
    /\ c \in DOMAIN asks /\ asks[c].pc = "read"
    /\ LET cached == getCachedAnswer(caller(asks[c].uid), store, clicks[c].id, ok) IN
       IF cacheHit(cached)
       THEN /\ asks' = [asks EXCEPT ![c] = AskDone]
            /\ lastAsk' = AskStep(c, (CHOOSE e \in cached : TRUE).answer, 0, "none")
            /\ answerSettles(c, TRUE)
       ELSE /\ asks' = [asks EXCEPT ![c] = Ask("provider", NoUid, NoAnswer)]
            /\ lastAsk' = AskStep(c, NoAnswer, 1, IF ok THEN "none" ELSE "read")
            /\ UNCHANGED clipVars
    /\ lastDb' = NoDb
    /\ UNCHANGED <<currentUser, user, logoutDue, store, questions, auths, refreshed, calls, fetches>>

\* generateContent of call c settles.  Rejected: the error is rethrown to
\* handleQuestionClick.  With a response, saveAnswerToCache is called:
\* skipped with no user (the answer is returned), else setDoc is awaited
askProviderSettles(c, out) ==
    /\ c \in DOMAIN asks /\ asks[c].pc = "provider"
    /\ IF out = Rejected
       THEN /\ asks' = [asks EXCEPT ![c] = AskDone]
            /\ lastAsk' = askRejected(c)
            /\ answerSettles(c, FALSE)
            /\ lastDb' = NoDb
       ELSE /\ lastDb' = Db("saveAnswerToCache", currentUser, {})
            /\ IF skipped(currentUser)
               THEN /\ asks' = [asks EXCEPT ![c] = AskDone]
                    /\ lastAsk' = AskStep(c, answerText(out), 1, "signedOut")
                    /\ answerSettles(c, TRUE)
               ELSE /\ asks' = [asks EXCEPT ![c] =
                           Ask("write", currentUser.uid, answerText(out))]
                    /\ lastAsk' = AskStep(c, NoAnswer, 1, "none")
                    /\ UNCHANGED clipVars
    /\ UNCHANGED <<currentUser, user, logoutDue, store, questions, auths, refreshed, calls, fetches>>

\* setDoc of call c settles (ok is false when it rejects, which
\* saveAnswerToCache swallows): the answer is returned to handleQuestionClick
askWriteSettles(c, ok) ==
    /\ c \in DOMAIN asks /\ asks[c].pc = "write"
    /\ LET a == asks[c] IN
       /\ store' = saveAnswerToCache(caller(a.uid), store, clicks[c].id,
                       [answer |-> a.text, audio |-> NoAudio, writer |-> a.uid], ok)
       /\ lastAsk' = AskStep(c, a.text, 1, IF ok THEN "none" ELSE "write")
    /\ asks' = [asks EXCEPT ![c] = AskDone]
    /\ answerSettles(c, TRUE)
    /\ lastDb' = NoDb
    /\ UNCHANGED <<currentUser, user, logoutDue, questions, auths, refreshed, calls, fetches>>

RefreshContinues ==
    (\E ok \in BOOLEAN : refreshContinues(ok)) /\ UNCHANGED <<liveVars, clipVars>>
SignIn ==
    /\ \E u \in Uids, verified \in BOOLEAN, ok \in BOOLEAN : signIn(u, verified, ok)
    /\ UNCHANGED <<liveVars, clipVars>>
SignUp == (\E u \in Uids : signUp(u)) /\ UNCHANGED <<liveVars, clipVars>>
HandleGoogleLogin ==
    /\ \E u \in Uids, verified \in BOOLEAN, ok \in BOOLEAN : handleGoogleLogin(u, verified, ok)
    /\ UNCHANGED <<liveVars, clipVars>>
LogoutSettles == logoutSettles /\ UNCHANGED <<liveVars, clipVars>>
OnAuthStateChanged ==
    (\E ok \in BOOLEAN : onAuthStateChanged(ok)) /\ UNCHANGED <<liveVars, clipVars>>
HandleLogout == handleLogout /\ UNCHANGED liveVars
AskClick == (\E q \in Ids : askClick(q)) /\ UNCHANGED liveVars
AskReadSettles ==
    (\E c \in 1..MaxClicks, ok \in BOOLEAN : askReadSettles(c, ok)) /\ UNCHANGED liveVars
AskProviderSettles ==
    /\ \E c \in 1..MaxClicks, out \in ProviderTexts \cup {Rejected} :
          askProviderSettles(c, out)
    /\ UNCHANGED liveVars
AskWriteSettles ==
    (\E c \in 1..MaxClicks, ok \in BOOLEAN : askWriteSettles(c, ok)) /\ UNCHANGED liveVars
\* the modal is closed while the main page is shown
CloseModal ==
    /\ user # NoUid /\ handleCloseModal
    /\ lastDb' = NoDb /\ lastAsk' = NoAskStep
    /\ UNCHANGED <<currentUser, user, logoutDue, store, questions, asks, auths, refreshed, calls, fetches>>
    /\ UNCHANGED liveVars

\* ---------------------------------------------- getAudioFromText
\* a request: handleQuestionClick calls getAnswerFromAI(id, text) and, with
\* the answer it returns, playAudio, which calls getAudioFromText(id, answer).
\* pc: the await at which it is suspended; uid: the user its pending
\* dbService call runs for; text: the answer; cached: what getAudioFromText
\* read from the cache (no entry: {})
Fetch(id, pc, uid, text, cached) ==
    [id |-> id, pc |-> pc, uid |-> uid, text |-> text, cached |-> cached]

FetchDone == Fetch(NoId, "done", NoUid, NoAnswer, {})

\* getAudioFromText(id, text) up to its first await: getCachedAnswer is
\* skipped with no user (cached is null and generateContent is called), else
\* getDoc is awaited
getAudioFromText(id, text) ==
    IF skipped(currentUser) THEN Fetch(id, "tts", NoUid, text, {})
    ELSE Fetch(id, "audioRead", currentUser.uid, text, {})

\* { ...cached, audioBase64: base64Audio }: the entry as it was read, with
\* the audio synthesized from the text passed to getAudioFromText
withAudio(entry, text, uid) ==
    [entry EXCEPT !.audio = speech(text), !.writer = uid]

\* a request is made for question q while the main page is shown
fetchStart(q) ==
    /\ user # NoUid /\ Len(fetches) < MaxFetches
    /\ fetches' = Append(fetches,
          IF skipped(currentUser) THEN Fetch(q, "provider", NoUid, NoAnswer, {})
          ELSE Fetch(q, "read", currentUser.uid, NoAnswer, {}))
    /\ UNCHANGED store

\* getDoc of getAnswerFromAI settles: on a hit the stored answer is returned
\* and getAudioFromText is called with it, else generateContent is called
fetchReadSettles(f, ok) ==
    /\ f \in DOMAIN fetches /\ fetches[f].pc = "read"
    /\ LET r == fetches[f]
           cached == getCachedAnswer(caller(r.uid), store, r.id, ok) IN
       fetches' = [fetches EXCEPT ![f] =
          IF cacheHit(cached)
          THEN getAudioFromText(r.id, (CHOOSE e \in cached : TRUE).answer)
          ELSE Fetch(r.id, "provider", NoUid, NoAnswer, {})]
    /\ UNCHANGED store

\* generateContent of getAnswerFromAI settles: a rejection ends the request
\* (handleQuestionClick sets the error); with a response saveAnswerToCache is
\* called: skipped with no user (the answer is returned and getAudioFromText
\* is called), else setDoc is awaited
fetchProviderSettles(f, out) ==
    /\ f \in DOMAIN fetches /\ fetches[f].pc = "provider"
    /\ LET r == fetches[f] IN
       fetches' = [fetches EXCEPT ![f] =
          IF out = Rejected THEN FetchDone
          ELSE IF skipped(currentUser) THEN getAudioFromText(r.id, answerText(out))
          ELSE Fetch(r.id, "write", currentUser.uid, answerText(out), {})]
    /\ UNCHANGED store

\* setDoc of getAnswerFromAI settles: the entry (without audio) replaces the
\* document, the answer is returned and getAudioFromText is called with it
fetchWriteSettles(f, ok) ==
    /\ f \in DOMAIN fetches /\ fetches[f].pc = "write"
    /\ LET r == fetches[f] IN
       /\ store' = saveAnswerToCache(caller(r.uid), store, r.id,
                       [answer |-> r.text, audio |-> NoAudio, writer |-> r.uid], ok)
       /\ fetches' = [fetches EXCEPT ![f] = getAudioFromText(r.id, r.text)]

\* getDoc of getAudioFromText settles: `if (cached?.audioBase64) return`,
\* else generateContent (TTS) is called for the text
audioReadSettles(f, ok) ==
    /\ f \in DOMAIN fetches /\ fetches[f].pc = "audioRead"
    /\ LET r == fetches[f]
           cached == getCachedAnswer(caller(r.uid), store, r.id, ok) IN
       fetches' = [fetches EXCEPT ![f] =
          IF cached # {} /\ (CHOOSE e \in cached : TRUE).audio # NoAudio
          THEN FetchDone
          ELSE Fetch(r.id, "tts", NoUid, r.text, cached)]
    /\ UNCHANGED store

\* generateContent (TTS) settles: a rejection or a response without audio is
\* thrown; else `if (cached) await saveAnswerToCache({...cached, audioBase64})`,
\* which is skipped with no user
ttsSettles(f, ok) ==
    /\ f \in DOMAIN fetches /\ fetches[f].pc = "tts"
    /\ LET r == fetches[f] IN
       fetches' = [fetches EXCEPT ![f] =
          IF ~ok \/ r.cached = {} \/ skipped(currentUser) THEN FetchDone
          ELSE Fetch(r.id, "audioWrite", currentUser.uid, r.text, r.cached)]
    /\ UNCHANGED store

\* setDoc of getAudioFromText settles: the entry that was read, with the
\* audio, replaces the document; the audio is returned
audioWriteSettles(f, ok) ==
    /\ f \in DOMAIN fetches /\ fetches[f].pc = "audioWrite"
    /\ LET r == fetches[f] IN
       store' = saveAnswerToCache(caller(r.uid), store, r.id,
                    withAudio(CHOOSE e \in r.cached : TRUE, r.text, r.uid), ok)
    /\ fetches' = [fetches EXCEPT ![f] = FetchDone]

\* what every step of a request leaves alone
fetching ==
    /\ lastDb' = NoDb /\ lastAsk' = NoAskStep
    /\ UNCHANGED <<currentUser, user, logoutDue, questions, asks, auths, refreshed, calls>>
    /\ UNCHANGED <<liveVars, clipVars>>

FetchStart == fetching /\ \E q \in Ids : fetchStart(q)
FetchReadSettles ==
    fetching /\ \E f \in 1..MaxFetches, ok \in BOOLEAN : fetchReadSettles(f, ok)
FetchProviderSettles ==
    fetching /\ \E f \in 1..MaxFetches, out \in ProviderTexts \cup {Rejected} :
                    fetchProviderSettles(f, out)
FetchWriteSettles ==
    fetching /\ \E f \in 1..MaxFetches, ok \in BOOLEAN : fetchWriteSettles(f, ok)
AudioReadSettles ==
    fetching /\ \E f \in 1..MaxFetches, ok \in BOOLEAN : audioReadSettles(f, ok)
TtsSettles == fetching /\ \E f \in 1..MaxFetches, ok \in BOOLEAN : ttsSettles(f, ok)
AudioWriteSettles ==
    fetching /\ \E f \in 1..MaxFetches, ok \in BOOLEAN : audioWriteSettles(f, ok)

NextAudio ==
    \/ HandleGoogleLogin
    \/ OnAuthStateChanged
    \/ HandleLogout
    \/ LogoutSettles
    \/ FetchStart
    \/ FetchReadSettles
    \/ FetchProviderSettles
    \/ FetchWriteSettles
    \/ AudioReadSettles
    \/ TtsSettles
    \/ AudioWriteSettles

SpecAudio == Init /\ [][NextAudio]_vars

\* ------------------------------------------- sign-out and VoiceAssistant
\* App renders <VoiceAssistant /> only while user is set (`if (!user) return
\* <LoginPage .../>`): its toggle button can be pressed only then.  The
\* component has no effect with a cleanup: when it is unmounted, its refs
\* live on in the closures of the callbacks it registered, which keep running.
ToggleStartMounted == user # NoUid /\ ToggleStart
ToggleStopMounted == user # NoUid /\ ToggleStop

\* the first sign-in of the run, by a verified user (a later sign-in would
\* mount a second VoiceAssistant, with refs of its own; which user signs in
\* makes no difference to the component)
FirstLogin ==
    /\ auths = 0
    /\ \E ok \in BOOLEAN : handleGoogleLogin("u1", TRUE, ok)
    /\ UNCHANGED <<liveVars, clipVars>>

NextSignOut ==
    \/ FirstLogin
    \/ OnAuthStateChanged
    \/ HandleLogout
    \/ LogoutSettles
    \/ ToggleStartMounted
    \/ ToggleStopMounted
    \/ GetUserMediaSettles
    \/ ConnectSettles
    \/ OnMessage
    \/ OnClose
    \/ OnError
    \/ OnEnded
    \/ OnAudioProcess
    \/ Tick

SpecSignOut == Init /\ [][NextSignOut]_vars

\* ------------------------------------- dbService called directly
\* each function of dbService, called in whatever state the sign-in is in,
\* with its Firestore request settled in the same step
callGetCachedAnswer(q, ok) ==
    /\ lastDb' = Db("getCachedAnswer", currentUser,
                    getCachedAnswer(currentUser, store, q, ok))
    /\ UNCHANGED <<store, questions>>

callSaveAnswerToCache(q, text, ok) ==
    /\ store' = saveAnswerToCache(currentUser, store, q,
                    [answer |-> text, audio |-> NoAudio, writer |-> currentUser.uid], ok)
    /\ lastDb' = Db("saveAnswerToCache", currentUser, {})
    /\ UNCHANGED questions

callGetAllCachedIds(ok) ==
    /\ lastDb' = Db("getAllCachedIds", currentUser, getAllCachedIds(currentUser, store, ok))
    /\ UNCHANGED <<store, questions>>

callGetCustomQuestions(ok) ==
    /\ lastDb' = Db("getCustomQuestions", currentUser,
                    getCustomQuestions(currentUser, questions, ok))
    /\ UNCHANGED <<store, questions>>

callSaveCustomQuestion(id, ok) ==
    /\ questions' = saveCustomQuestion(currentUser, questions, id, ok)
    /\ lastDb' = Db("saveCustomQuestion", currentUser, {})
    /\ UNCHANGED store

callDeleteCustomQuestion(id, ok) ==
    /\ questions' = deleteCustomQuestion(currentUser, questions, id, ok)
    /\ lastDb' = Db("deleteCustomQuestion", currentUser, {})
    /\ UNCHANGED store

\* what every direct call leaves alone
called ==
    /\ calls < MaxCalls
    /\ calls' = calls + 1
    /\ lastAsk' = NoAskStep
    /\ UNCHANGED <<currentUser, user, logoutDue, asks, auths, refreshed, fetches>>
    /\ UNCHANGED <<liveVars, clipVars>>

CallGetCachedAnswer ==
    called /\ \E q \in Ids, ok \in BOOLEAN : callGetCachedAnswer(q, ok)
CallSaveAnswerToCache ==
    called /\ \E q \in Ids, text \in ProviderTexts, ok \in BOOLEAN :
                  callSaveAnswerToCache(q, answerText(text), ok)
CallGetAllCachedIds == called /\ \E ok \in BOOLEAN : callGetAllCachedIds(ok)
CallGetCustomQuestions == called /\ \E ok \in BOOLEAN : callGetCustomQuestions(ok)
CallSaveCustomQuestion ==
    called /\ \E id \in Ids, ok \in BOOLEAN : callSaveCustomQuestion(id, ok)
CallDeleteCustomQuestion ==
    called /\ \E id \in Ids, ok \in BOOLEAN : callDeleteCustomQuestion(id, ok)

NextDb ==
    \/ SignIn
    \/ SignUp
    \/ HandleGoogleLogin
    \/ LogoutSettles
    \/ OnAuthStateChanged
    \/ HandleLogout
    \/ CallGetCachedAnswer
    \/ CallSaveAnswerToCache
    \/ CallGetAllCachedIds
    \/ CallGetCustomQuestions
    \/ CallSaveCustomQuestion
    \/ CallDeleteCustomQuestion

SpecDb == Init /\ [][NextDb]_vars

NextCache ==
    \/ SignIn
    \/ SignUp
    \/ HandleGoogleLogin
    \/ LogoutSettles
    \/ OnAuthStateChanged
    \/ RefreshContinues
    \/ HandleLogout
    \/ AskClick
    \/ AskReadSettles
    \/ AskProviderSettles
    \/ AskWriteSettles
    \/ CloseModal

SpecCache == Init /\ [][NextCache]_vars

\* ---------------------------------------------- claims: Answer Cache
\* call c of getAnswerFromAI returns in this step with an entry of the cache
CacheHitReturned(c) == asks[c].pc = "read" /\ asks'[c].pc = "done"

\* C15: an entry that getAnswerFromAI returns from the cache was written
\* under the user who reads it: an answer written under one user is never
\* returned to another.
C15_CachePerUser ==
    [][\A c \in DOMAIN asks :
          CacheHitReturned(c) => store[clicks[c].id].writer = asks[c].uid]_vars

\* the step called a function of dbService while nobody was signed in
CalledWithNoUser == lastDb'.fn # "none" /\ lastDb'.user = NoUser

\* C16: with no authenticated user every function of dbService is skipped:
\* the store is not touched, getCachedAnswer returns null (no entry),
\* getAllCachedIds and getCustomQuestions return nothing, and the answers
\* and the custom questions stored stay as they are.
C16_NoUserSkipsCache ==
    /\ []((lastDb.fn # "none" /\ lastDb.user = NoUser) =>
            (~lastDb.touched /\ lastDb.result = {}))
    /\ [][CalledWithNoUser => (store' = store /\ questions' = questions)]_vars

\* deleteCustomQuestion was called with nobody signed in while a custom
\* question is stored
C16_Witness ==
    /\ lastDb.fn = "deleteCustomQuestion" /\ lastDb.user = NoUser
    /\ questions # {}

\* C17: no function of dbService reaches the document store for a user whose
\* email is not verified.
C17_UnverifiedNeverReachesStore == lastDb.touched => lastDb.user.verified

\* getDoc of call c, which was made with a user signed in, settles in this step
ReadSettled(c) == asks[c].pc = "read" /\ asks'[c].pc # "read"

\* call c returns in this step an answer that it got from the provider
ProviderAnswerReturned(c) ==
    /\ lastAsk'.c = c /\ lastAsk'.calls = 1
    /\ lastAsk'.result \notin {NoAnswer, Rejected}

\* the step wrote the answer that call c returns under the id of its
\* question, and no other entry
AnswerWritten(c) ==
    /\ store'[clicks[c].id].answer = lastAsk'.result
    /\ \A q \in Ids \ {clicks[c].id} : store'[q] = store[q]

\* C18 as stated: with a user signed in and an entry stored for the
\* question id, getAnswerFromAI returns the stored answer, calls no provider
\* and writes nothing; with no entry stored it calls the provider once, and
\* the answer it returns from the provider is written under the id (a user
\* being signed in when the provider responds).
C18_HitReturnsStoredMissWrites ==
    [][\A c \in DOMAIN asks :
          /\ (ReadSettled(c) /\ store[clicks[c].id] # NoEntry) =>
                 /\ lastAsk'.c = c /\ lastAsk'.calls = 0
                 /\ lastAsk'.result = store[clicks[c].id].answer
                 /\ store' = store
          /\ (ReadSettled(c) /\ store[clicks[c].id] = NoEntry) =>
                 /\ asks'[c].pc = "provider" /\ lastAsk'.calls = 1
                 /\ store' = store
          /\ (ProviderAnswerReturned(c) /\ lastAsk'.fault # "signedOut") =>
                 AnswerWritten(c)]_vars

\* C18 amended: the stored answer is returned, with no provider call and no
\* write, when the read of the entry succeeds (when getDoc rejects, the
\* provider is called as on a miss); and the answer returned from the
\* provider is written under the id when a user is signed in at the time the
\* provider responds and setDoc succeeds (else the answer is returned and
\* nothing is written).  The provider is called at most once per call.
C18_HitReturnsStoredUnlessReadFails ==
    [][\A c \in DOMAIN asks :
          /\ (ReadSettled(c) /\ store[clicks[c].id] # NoEntry /\ lastAsk'.fault # "read") =>
                 /\ lastAsk'.c = c /\ lastAsk'.calls = 0
                 /\ lastAsk'.result = store[clicks[c].id].answer
                 /\ store' = store
          /\ (ReadSettled(c) /\ (store[clicks[c].id] = NoEntry \/ lastAsk'.fault = "read")) =>
                 /\ asks'[c].pc = "provider" /\ lastAsk'.calls = 1
                 /\ store' = store
          /\ ProviderAnswerReturned(c) =>
                 IF lastAsk'.fault = "none" THEN AnswerWritten(c) ELSE store' = store]_vars

\* a call has returned the stored answer of its question without a provider call
C18_Witness ==
    /\ lastAsk.c # 0 /\ lastAsk.calls = 0 /\ lastAsk.result # NoAnswer
    /\ asks[lastAsk.c].pc = "done"

\* the modal shows an answer: isLoading ? spinner : error ? message : aiResponse ? answer
answerDisplayed ==
    selectedQuestion # NoId /\ ~isLoading /\ ~error /\ aiResponse # NoId

\* C19: when generateContent of a getAnswerFromAI call rejects, the call is
\* rejected to handleQuestionClick (with the Error that carries the message
\* "Failed to fetch answer from AI mentor."), the provider was called once
\* by it, nothing is written to the cache, and handleQuestionClick ends with
\* the error message set, the loading flag false and no answer displayed.
C19_ProviderFailureSurfaced ==
    [][lastAsk'.result = Rejected =>
          /\ lastAsk'.calls = 1
          /\ asks[lastAsk'.c].pc = "provider" /\ asks'[lastAsk'.c].pc = "done"
          /\ store' = store
          /\ error' /\ ~isLoading' /\ ~answerDisplayed']_vars

\* a call was rejected while the modal is open and holds the answer of a
\* later call
C19_Witness ==
    lastAsk.result = Rejected /\ selectedQuestion # NoId /\ aiResponse # NoId

\* C24: every entry of the cache that holds audio holds the audio that was
\* synthesized from the answer text of that entry.
C24_AudioMatchesAnswer ==
    \A q \in Ids :
        (store[q] # NoEntry /\ store[q].audio # NoAudio) =>
            store[q].audio = speech(store[q].answer)

\* -------------------------------------------------- claims: Clip Player
\* the step starts a clip
ClipStarted == Len(clips') = Len(clips) + 1

\* C1: a clip that is started belongs to the last-issued playAudio call:
\* the result of every call issued before it is discarded.
C1_OnlyLastCallStarts ==
    [][ClipStarted => clips'[Len(clips')].call = Len(plays)]_vars

playingClips == {i \in DOMAIN clips : clips[i].state = "playing"}

\* C2: at most one source of the Clip Player is playing at any time.
C2_AtMostOnePlaying == Cardinality(playingClips) <= 1

\* C11: after stopAudio(), called in any state, isPlaying is false, the
\* active-id token is cleared and no source is current; a stopAudio() that
\* directly follows another one changes nothing of the player.  (That no
\* error is raised shows in the state: an error raised by source.stop()
\* would skip the assignments after it.)
C11_StopAudioIdempotent ==
    /\ [](lastClip # "other" =>
            /\ ~isPlaying
            /\ activeAudioQuestionIdRef = NoId
            /\ audioSourceRef = NoSource)
    /\ [][lastClip' = "stopAgain" =>
             UNCHANGED <<activeAudioQuestionIdRef, audioSourceRef, isPlaying,
                         isAudioLoading, clips, plays>>]_vars

\* stopAudio() was called twice in a row, the first call on a source that
\* had already played to its end
C11_Witness ==
    /\ lastClip = "stopAgain"
    /\ clips # <<>> /\ clips[Len(clips)].state = "ended"

\* C12: a play call that was pending (awaiting its TTS fetch or its decode)
\* when stopAudio() was called never starts a clip.
C12_StoppedCallNeverStarts ==
    [][ClipStarted => ~plays[clips'[Len(clips')].call].halted]_vars

\* C13: isPlaying is true if and only if a source started by the player has
\* neither ended nor been stopped.
C13_IsPlayingIffSourcePlaying == isPlaying <=> (playingClips # {})

\* C14: when the TTS fetch or the decode of a play call fails, the step
\* starts no source and issues no new play call (no retry), and, the call
\* being the last one issued, isPlaying is false afterwards.
C14_FailedPlayNotPlaying ==
    [][\A p \in DOMAIN plays :
          (plays[p].pc # "failed" /\ plays'[p].pc = "failed") =>
              /\ Len(clips') = Len(clips)
              /\ Len(plays') = Len(plays)
              /\ (p = Len(plays) => ~isPlaying')]_vars

\* C20: no clip starts playing while the answer modal is closed (the user
\* closed it and has made no new request, which would open it again).
C20_NoClipAfterClose ==
    [][ClipStarted => selectedQuestion # NoId]_vars

\* C22: whenever the modal displays an answer it is the answer of the
\* selected question, and every clip that is playing is the clip of the
\* selected question.
C22_AnswerOfSelectedQuestion ==
    /\ answerDisplayed => aiResponse = selectedQuestion
    /\ \A i \in playingClips : clips[i].id = selectedQuestion

\* the playAudio calls that await getAudioFromText or decodeAudioData
pendingPlays == {p \in DOMAIN plays : plays[p].pc \in {"fetch", "decode"}}

\* C23: when no playAudio call awaits its fetch or its decode, isAudioLoading
\* is false.
C23_LoadingOnlyWhilePending == (pendingPlays = {}) => ~isAudioLoading

\* ------------------------------------------------- claims: Live Session
\* logout has completed and App has seen it: nobody is signed in and the
\* login page is shown
SignedOut == auths > 0 /\ currentUser = NoUser /\ user = NoUid /\ ~logoutDue

\* source i of the live session is playing now
livePlaying(i) == ~liveSources[i].stopped /\ realStart(i) <= 0 /\ realEnd(i) > 0

\* C25: once logout has completed and the user is gone, no session
\* connection is open, no microphone frame is forwarded and no source of the
\* live session is playing.
C25_SignOutEndsSession ==
    SignedOut =>
        /\ \A s \in DOMAIN attempts : attempts[s].conn # "open"
        /\ ~(lastOp.kind = "frame" /\ lastOp.arg # NoSession)
        /\ \A i \in DOMAIN liveSources : ~livePlaying(i)

\* C21: a microphone frame is sent only to the session whose handle the
\* controller holds (never to a session that was stopped or replaced).
C21_FramesOnlyToHeldSession ==
    (lastOp.kind = "frame" /\ lastOp.arg # NoSession) => lastOp.arg = sessionRef

RECURSIVE SumDurations(_, _, _)
\* sum of the durations of the first n sources of srcs that belong to session s
SumDurations(srcs, s, n) ==
    IF n = 0 THEN 0
    ELSE SumDurations(srcs, s, n - 1) + (IF srcs[n].sess = s THEN srcs[n].dur ELSE 0)

\* the step schedules a new chunk
ChunkScheduled == Len(liveSources') = Len(liveSources) + 1
NewChunk == liveSources'[Len(liveSources')]

\* C3: every inbound chunk (with no interruption in its message) starts at
\* max(nextAvailableStartTime, clock at arrival) and advances
\* nextAvailableStartTime to start + duration; and a chunk of a session that
\* has seen no interruption or stop, arriving at clock time 0 (so every
\* earlier chunk of the session arrived at clock 0 too), starts at the sum
\* of the durations of the session's earlier chunks.
C3_ChunkStartIsSumOfDurations ==
    [][(ChunkScheduled /\ timeline' # "interrupted") =>
          /\ NewChunk.start = Max(nextStartTimeRef, currentTime(NewChunk.sess))
          /\ nextStartTimeRef' = NewChunk.start + NewChunk.dur
          /\ (~attempts[NewChunk.sess].dirty /\ currentTime(NewChunk.sess) = 0)
                => NewChunk.start = SumDurations(liveSources, NewChunk.sess, Len(liveSources))
      ]_vars

\* C4: for any two chunks scheduled by the controller, the earlier one not
\* stopped, the later chunk starts playing no earlier than the earlier chunk
\* ends (no two chunks overlap in time, and they play in arrival order).
C4_NoOverlap ==
    \A i, j \in DOMAIN liveSources :
        (i < j /\ ~liveSources[i].stopped) => realStart(j) >= realEnd(i)

\* C5: after an "interrupted" signal every source of the session is stopped
\* (or has already played to its end), the tracked-source set is empty and
\* nextAvailableStartTime is 0; and the next chunk that arrives is scheduled
\* at the current clock time of its context.
C5_InterruptedClearsTimeline ==
    /\ [](timeline = "interrupted" =>
            /\ sourcesRef = {}
            /\ nextStartTimeRef = 0
            /\ \A i \in DOMAIN liveSources : liveSources[i].stopped \/ hasEnded(i))
    /\ [][(ChunkScheduled /\ timeline = "interrupted") =>
             NewChunk.start = currentTime(NewChunk.sess)]_vars

\* a chunk was scheduled right after an interruption that discarded a chunk
\* of the same session, and starts before the discarded chunk would have ended
C5_Witness ==
    \E i, k \in DOMAIN liveSources :
        /\ k < i
        /\ timeline = "resumed" /\ i = Len(liveSources)
        /\ liveSources[k].stopped
        /\ liveSources[k].sess = liveSources[i].sess
        /\ liveSources[i].start < liveSources[k].start + liveSources[k].dur

openSessions == {s \in DOMAIN attempts : attempts[s].conn = "open"}

\* C6: there are never two session connections open at once.
C6_AtMostOneOpenSession == Cardinality(openSessions) <= 1

\* C7: when a new live session starts (startSession is invoked), the set of
\* tracked sources is empty and nextAvailableStartTime is 0.
C7_CleanAtSessionStart ==
    [][Len(attempts') = Len(attempts) + 1 =>
          (sourcesRef = {} /\ nextStartTimeRef = 0)]_vars

\* the controller is Idle: flag false and no handle retained
Idle == ~isActive /\ sessionRef = NoSession
Active == isActive /\ sessionRef # NoSession

\* C8: from Active, a local stop(), a remote close of the held session and a
\* remote error of the held session each leave the controller Idle.
C8_BackToIdle ==
    [][(Active /\ (\/ lastOp'.kind = "stop"
                   \/ lastOp'.kind = "remoteError"
                   \/ (attempts[sessionRef].conn = "open"
                        /\ attempts'[sessionRef].conn = "closed")))
          => Idle']_vars

C10_FailedStartLeavesIdle ==
    [][\A s \in DOMAIN attempts :
          (attempts[s].pc \in {"mic", "connecting"}
              /\ attempts'[s].pc \in {"failedMic", "failedConnect"})
          => /\ Idle'
             /\ audioContextRef' # s
             /\ attempts'[s].pc # "failedConnect"]_vars

====
